---- MODULE Spec2Model ----
(***************************************************************************)
(* Model of santali_bot.py: the Ol Chiki word collector.                   *)
(*                                                                         *)
(* Characters are Unicode code points (integers), strings are sequences of *)
(* code points, the wordlist file is a sequence of lines.                  *)
(*                                                                         *)
(* process_text is modelled by its evident block structure: in the source  *)
(* its body (lines 76-100) is written one indentation level too shallow,   *)
(* lines 76-88 being the function body and lines 90-100 the body of        *)
(* `if found_words:`.                                                      *)
(***************************************************************************)
EXTENDS Integers, Sequences, FiniteSets, TLC

(* ---------------------------- bounds ----------------------------------- *)
MaxLen == 4          \* longest enumerated input text of the extractor
MaxCalls == 2        \* process_text calls on one text in SpecExtract
MaxFileLines == 2    \* lines of the wordlist file at startup
MaxExtracts == 1     \* pages with an "extract" in one content response

(* ------------------------ program constants ---------------------------- *)
OL_CHIKI_FIRST == 7248      \* U+1C50
OL_CHIKI_LAST == 7295       \* U+1C7F
chunk_size == 20
max_scrolls == 4

(* ------------------------- character classes --------------------------- *)
\* [᱐-᱿]
IsOlChiki(c) == c >= OL_CHIKI_FIRST /\ c <= OL_CHIKI_LAST

\* \w of the regex engine on str patterns: letters, digits and underscore.
\* Given for ASCII and for the Ol Chiki block, where U+1C50-U+1C7D are
\* digits and letters and U+1C7E, U+1C7F are punctuation.
IsWordChar(c) ==
    \/ c >= 48 /\ c <= 57
    \/ c >= 65 /\ c <= 90
    \/ c = 95
    \/ c >= 97 /\ c <= 122
    \/ c >= OL_CHIKI_FIRST /\ c <= 7293

\* the whitespace of str.split() and str.strip()
IsSpace(c) ==
    \/ c >= 9 /\ c <= 13
    \/ c >= 28 /\ c <= 32
    \/ c \in {133, 160, 5760, 8232, 8233, 8239, 8287, 12288}
    \/ c >= 8192 /\ c <= 8202

\* the negated class [^\w᱐-᱿] of the edge-stripping pattern
IsEdgePunct(c) == ~IsWordChar(c) /\ ~IsOlChiki(c)

(* --------------------------- the extractor ----------------------------- *)
\* OL_CHIKI_PATTERN.findall: left-to-right scan, `cur` is the run being
\* matched by the greedy `+`, `acc` the matches found so far.
RECURSIVE FindAllFrom(_, _, _, _)
FindAllFrom(s, k, cur, acc) ==
    IF k > Len(s)
    THEN IF cur = <<>> THEN acc ELSE Append(acc, cur)
    ELSE IF IsOlChiki(s[k])
         THEN FindAllFrom(s, k + 1, Append(cur, s[k]), acc)
         ELSE FindAllFrom(s, k + 1, <<>>,
                          IF cur = <<>> THEN acc ELSE Append(acc, cur))

OL_CHIKI_findall(s) == FindAllFrom(s, 1, <<>>, <<>>)

\* OL_CHIKI_PATTERN.search used as a truth value: scan for the first position
\* where the pattern matches.
RECURSIVE SearchFrom(_, _)
SearchFrom(s, k) ==
    IF k > Len(s) THEN FALSE
    ELSE IF IsOlChiki(s[k]) THEN TRUE ELSE SearchFrom(s, k + 1)

search_always(s) == TRUE

OL_CHIKI_search(s) == SearchFrom(s, 1)

\* text.split(): the maximal runs of non-whitespace, in order
RECURSIVE SplitFrom(_, _, _, _)
SplitFrom(s, k, cur, acc) ==
    IF k > Len(s)
    THEN IF cur = <<>> THEN acc ELSE Append(acc, cur)
    ELSE IF IsSpace(s[k])
         THEN SplitFrom(s, k + 1, <<>>,
                        IF cur = <<>> THEN acc ELSE Append(acc, cur))
         ELSE SplitFrom(s, k + 1, Append(cur, s[k]), acc)

split(s) == SplitFrom(s, 1, <<>>, <<>>)

\* first alternative ^[^\w᱐-᱿]+ : the greedy run at the start
RECURSIVE DropLeading(_)
DropLeading(s) ==
    IF s # <<>> /\ IsEdgePunct(Head(s)) THEN DropLeading(Tail(s)) ELSE s

\* second alternative [^\w᱐-᱿]+$ : the run that reaches the end
RECURSIVE DropTrailing(_)
DropTrailing(s) ==
    IF s # <<>> /\ IsEdgePunct(s[Len(s)])
    THEN DropTrailing(SubSeq(s, 1, Len(s) - 1))
    ELSE s

re_sub_leading_only(token) == DropLeading(token)

\* re.sub(r'^[^\w᱐-᱿]+|[^\w᱐-᱿]+$', '', token)
re_sub_edges(token) == DropTrailing(DropLeading(token))

set_toggle(words, new) == (words \ new) \cup (new \ words)

set_replace(words, new) == new

\* self.collected_words.add(...) for each word of `new`
set_add(words, new) == words \cup new

\* first pass: the matches longer than one character
first_pass(found_words) ==
    {found_words[k] : k \in {n \in 1..Len(found_words) : Len(found_words[n]) > 1}}

\* second pass: the cleaned whitespace tokens the pattern is found in
second_pass(text) ==
    LET tokens == split(text)
        clean == [k \in 1..Len(tokens) |-> re_sub_edges(tokens[k])]
    IN {clean[k] : k \in {n \in 1..Len(tokens) : OL_CHIKI_search(clean[n])}}

\* SantaliBot.process_text: the wordlist after the call
process_text(words, text) ==
    IF text = <<>> THEN words
    ELSE LET found_words == OL_CHIKI_findall(text)
             after_first == set_add(words, first_pass(found_words))
         IN IF found_words # <<>>
            THEN set_add(after_first, second_pass(text))
            ELSE after_first

(* ------------------------------ inputs --------------------------------- *)
\* space, full stop, "a", two Ol Chiki letters, Ol Chiki punctuation
Sigma == {32, 46, 97, 7263, 7269, 7294}

\* "ᱥᱟᱱᱛᱟᱲ is a language."
TextSantali == <<7269, 7263, 7281, 7259, 7263, 7282, 32, 105, 115, 32, 97, 32,
                 108, 97, 110, 103, 117, 97, 103, 101, 46>>

WordSantali == <<7269, 7263, 7281, 7259, 7263, 7282>>

\* "a ᱵ c"
TextNoise == <<97, 32, 7285, 32, 99>>

\* "ᱥᱟ."
TextShort == <<7269, 7263, 46>>

Texts == UNION {[1..n -> Sigma] : n \in 0..MaxLen} \cup {TextSantali, TextNoise}

\* wordlists the extractor is started from
StartWordlists == {{}, {<<7269, 7263>>, <<97>>}}

\* page texts the sources return: "", "ᱥᱟ.", "a ᱵ c"
PageTexts == {<<>>, TextShort, TextNoise}

\* numbers of search hits: none, one chunk, more than one chunk
PageCounts == {0, 1, chunk_size + 1}

\* lines a wordlist file may hold at startup: "ᱟᱥ", " ᱥᱟ", a blank line
FileLines == {<<7263, 7269>>, <<32, 7269, 7263>>, <<>>}

FileContents == UNION {[1..n -> FileLines] : n \in 0..MaxFileLines}

\* the sources of the main run, in call order
Sources == <<"sat.wikipedia.org", "sat.wiktionary.org", "en.wiktionary.org",
             "sat.wikisource.org", "reddit.com/r/Santali",
             "quora.com/topic/Santali-Language">>

\* the first NumApiSources entries of Sources go to scrape_mediawiki
NumApiSources == 4

(* ------------------------------- state --------------------------------- *)
VARIABLES
    pc,               \* position of the run
    collected_words,  \* SantaliBot.collected_words
    driver,           \* SantaliBot.driver: "unset", "ok" or "none"
    file_exists,      \* os.path.exists(OUTPUT_FILE)
    file,             \* lines of OUTPUT_FILE
    src,              \* index in Sources of the source being scraped
    page_ids,         \* len(page_ids) in scrape_mediawiki
    i,                \* chunk offset in scrape_mediawiki
    scroll_attempts,  \* scroll_attempts in scrape_dynamic_url
    text,             \* SpecExtract: argument of the process_text calls
    calls,            \* SpecExtract: process_text calls made on `text`
    words0,           \* the wordlist before the first process_text call
    extracted,        \* the words process_text calls have added
    file0_exists,     \* history: file_exists at startup
    file0,            \* history: file at startup
    load_error,       \* history: load_existing_words caught a read error
    log,              \* history: scrape calls, save_words and close, in order
    failure_seen,     \* history: a scrape call caught an exception
    kept,             \* history: the words collected when a scrape call failed
    browser_used,     \* history: a call was made on the browser driver
    save_ok,          \* history: save_words printed SUCCESS
    uncaught          \* history: an exception left the main block

vars == <<pc, collected_words, driver, file_exists, file, src, page_ids, i,
          scroll_attempts, text, calls, words0, extracted, file0_exists,
          file0, load_error, log, failure_seen, kept, browser_used, save_ok,
          uncaught>>

runVars == <<driver, file_exists, file, src, page_ids, i, scroll_attempts,
             file0_exists, file0, load_error, log, failure_seen, kept,
             browser_used, save_ok, uncaught>>

(* ------------------------- file and sort helpers ----------------------- *)
RECURSIVE LStrip(_)
LStrip(s) == IF s # <<>> /\ IsSpace(Head(s)) THEN LStrip(Tail(s)) ELSE s

RECURSIVE RStrip(_)
RStrip(s) ==
    IF s # <<>> /\ IsSpace(s[Len(s)]) THEN RStrip(SubSeq(s, 1, Len(s) - 1)) ELSE s

\* line.strip()
strip(line) == RStrip(LStrip(line))

\* the loop of load_existing_words over the lines read
read_lines(words, lines) ==
    set_add(words, {strip(lines[k]) : k \in 1..Len(lines)} \ {<<>>})

\* str.__lt__: code point order, a proper prefix first
RECURSIVE StrLess(_, _)
StrLess(a, b) ==
    IF b = <<>> THEN FALSE
    ELSE IF a = <<>> THEN TRUE
    ELSE IF Head(a) # Head(b) THEN Head(a) < Head(b)
    ELSE StrLess(Tail(a), Tail(b))

\* sorted(list(self.collected_words))
RECURSIVE sorted(_)
sorted(S) ==
    IF S = {} THEN <<>>
    ELSE LET m == CHOOSE x \in S : \A y \in S \ {x} : StrLess(x, y)
         IN <<m>> \o sorted(S \ {m})

\* the process_text calls of one response, in order
RECURSIVE process_all(_, _)
process_all(words, ts) ==
    IF ts = <<>> THEN words
    ELSE process_all(process_text(words, Head(ts)), Tail(ts))

(* --------------------------- control helpers --------------------------- *)
\* the statement after the scrape call of source s in the main block
AfterSource(s) ==
    IF s < NumApiSources THEN "mw_search"
    ELSE IF s < Len(Sources) THEN "dyn_start"
    ELSE "save"

error_uncaught(next) == "exit"

\* except Exception: print, then the call returns to its caller
error_caught(next) == next

driver_assumed(d) == TRUE

\* `self.driver` as a truth value
driver_set(d) == d = "ok"

\* while scroll_attempts < max_scrolls
ScrollLoop(n) == IF n < max_scrolls THEN "dyn_scroll" ELSE "dyn_find"

(* ------------------ the extractor on its own: SpecExtract -------------- *)
RunInit ==
    /\ driver = "unset"
    /\ src = 1
    /\ page_ids = 0
    /\ i = 0
    /\ scroll_attempts = 0
    /\ file0_exists = file_exists
    /\ file0 = file
    /\ load_error = FALSE
    /\ log = <<>>
    /\ failure_seen = FALSE
    /\ kept = {}
    /\ browser_used = FALSE
    /\ save_ok = FALSE
    /\ uncaught = FALSE

InitExtract ==
    /\ pc = "process_text"
    /\ text \in Texts
    /\ collected_words \in StartWordlists
    /\ words0 = collected_words
    /\ calls = 0
    /\ extracted = {}
    /\ file_exists = FALSE
    /\ file = <<>>
    /\ RunInit

ProcessTextCall ==
    /\ pc = "process_text"
    /\ calls < MaxCalls
    /\ collected_words' = process_text(collected_words, text)
    /\ extracted' = extracted \cup (collected_words' \ collected_words)
    /\ calls' = calls + 1
    /\ UNCHANGED <<pc, text, words0>>
    /\ UNCHANGED runVars

NextExtract == ProcessTextCall

SpecExtract == InitExtract /\ [][NextExtract]_vars

(* --------------------------- the main run: Spec ------------------------ *)
\* SantaliBot.__init__ up to self.collected_words = set()
Init ==
    /\ pc = "load"
    /\ collected_words = {}
    /\ text = <<>>
    /\ calls = 0
    /\ words0 = {}
    /\ extracted = {}
    /\ file_exists \in BOOLEAN
    /\ file \in (IF file_exists THEN FileContents ELSE {<<>>})
    /\ RunInit

\* a scrape call of source src returns, after an exception or normally; its
\* locals are gone
Return(caught) ==
    /\ pc' = (IF caught THEN error_caught(AfterSource(src)) ELSE AfterSource(src))
    /\ src' = IF src < Len(Sources) THEN src + 1 ELSE src
    /\ failure_seen' = (failure_seen \/ caught)
    /\ page_ids' = 0
    /\ i' = 0
    /\ scroll_attempts' = 0
    /\ kept' = IF caught THEN kept \cup collected_words ELSE kept

\* load_existing_words: the file is read up to line k, in full unless a read
\* error is caught
load_existing_words ==
    /\ pc = "load"
    /\ \E k \in 0..Len(file), err \in BOOLEAN :
        /\ file_exists
        /\ ~err => k = Len(file)
        /\ collected_words' = read_lines(collected_words, SubSeq(file, 1, k))
        /\ load_error' = err
    /\ words0' = collected_words'
    /\ pc' = "setup"
    /\ UNCHANGED <<driver, file_exists, file, src, page_ids, i, scroll_attempts,
                   text, calls, extracted, file0_exists, file0, log,
                   failure_seen, kept, browser_used, save_ok, uncaught>>

load_no_file ==
    /\ pc = "load"
    /\ ~file_exists
    /\ pc' = "setup"
    /\ UNCHANGED <<collected_words, driver, file_exists, file, src, page_ids, i,
                   scroll_attempts, text, calls, words0, extracted,
                   file0_exists, file0, load_error, log, failure_seen, kept,
                   browser_used, save_ok, uncaught>>

\* setup_driver: webdriver.Chrome(...) returns a driver or raises
setup_driver ==
    /\ pc = "setup"
    /\ driver' \in {"ok", "none"}
    /\ pc' = "mw_search"
    /\ UNCHANGED <<collected_words, file_exists, file, src, page_ids, i,
                   scroll_attempts, text, calls, words0, extracted,
                   file0_exists, file0, load_error, log, failure_seen, kept,
                   browser_used, save_ok, uncaught>>

\* the call goes on to its statement `next`
Continue(next) ==
    /\ pc' = next
    /\ UNCHANGED <<src, failure_seen, kept>>

\* scrape_mediawiki, step 1: the search request and its JSON
mw_search ==
    /\ pc = "mw_search"
    /\ log' = Append(log, Sources[src])
    /\ \/ Return(TRUE)
       \/ Return(FALSE)
       \/ \E n \in PageCounts \ {0} :
            /\ page_ids' = n
            /\ i' = 0
            /\ Continue("mw_chunk")
            /\ UNCHANGED scroll_attempts
    /\ UNCHANGED <<collected_words, driver, file_exists, file, text, calls,
                   words0, extracted, file0_exists, file0, load_error,
                   browser_used, save_ok, uncaught>>

\* scrape_mediawiki, step 2: one chunk's content request, then process_text
\* on every extract of the response
mw_chunk ==
    /\ pc = "mw_chunk"
    /\ \/ /\ Return(TRUE)
          /\ UNCHANGED <<collected_words, extracted>>
       \/ \E ts \in UNION {[1..n -> PageTexts] : n \in 0..MaxExtracts} :
            /\ collected_words' = process_all(collected_words, ts)
            /\ extracted' = extracted \cup (collected_words' \ collected_words)
            /\ IF i + chunk_size < page_ids
               THEN /\ i' = i + chunk_size
                    /\ Continue("mw_chunk")
                    /\ UNCHANGED <<page_ids, scroll_attempts>>
               ELSE Return(FALSE)
    /\ UNCHANGED <<driver, file_exists, file, text, calls, words0,
                   file0_exists, file0, load_error, log, browser_used, save_ok,
                   uncaught>>

\* scrape_dynamic_url: the driver check
dyn_start ==
    /\ pc = "dyn_start"
    /\ log' = Append(log, Sources[src])
    /\ IF driver_set(driver)
       THEN /\ Continue("dyn_get")
            /\ UNCHANGED <<page_ids, i, scroll_attempts>>
       ELSE Return(FALSE)
    /\ UNCHANGED <<collected_words, driver, file_exists, file, text, calls,
                   words0, extracted, file0_exists, file0, load_error,
                   browser_used, save_ok, uncaught>>

\* one call on the driver: it raises or the call goes on to `next`
BrowserCall(next) ==
    /\ browser_used' = TRUE
    /\ \/ Return(TRUE)
       \/ /\ Continue(next)
          /\ UNCHANGED <<page_ids, i, scroll_attempts>>

\* self.driver.get(url)
dyn_get ==
    /\ pc = "dyn_get"
    /\ BrowserCall("dyn_height")
    /\ UNCHANGED <<collected_words, driver, file_exists, file, text, calls,
                   words0, extracted, file0_exists, file0, load_error, log,
                   save_ok, uncaught>>

\* last_height = ...; scroll_attempts = 0
dyn_height ==
    /\ pc = "dyn_height"
    /\ BrowserCall(ScrollLoop(0))
    /\ UNCHANGED <<collected_words, driver, file_exists, file, text, calls,
                   words0, extracted, file0_exists, file0, load_error, log,
                   save_ok, uncaught>>

\* window.scrollTo(0, document.body.scrollHeight)
dyn_scroll ==
    /\ pc = "dyn_scroll"
    /\ BrowserCall("dyn_newheight")
    /\ UNCHANGED <<collected_words, driver, file_exists, file, text, calls,
                   words0, extracted, file0_exists, file0, load_error, log,
                   save_ok, uncaught>>

\* new_height = ...; break when the height did not change
dyn_newheight ==
    /\ pc = "dyn_newheight"
    /\ browser_used' = TRUE
    /\ \/ Return(TRUE)
       \/ /\ Continue("dyn_find")
          /\ UNCHANGED <<page_ids, i, scroll_attempts>>
       \/ /\ scroll_attempts' = scroll_attempts + 1
          /\ Continue(ScrollLoop(scroll_attempts + 1))
          /\ UNCHANGED <<page_ids, i>>
    /\ UNCHANGED <<collected_words, driver, file_exists, file, text, calls,
                   words0, extracted, file0_exists, file0, load_error, log,
                   save_ok, uncaught>>

\* body_element = self.driver.find_element(By.TAG_NAME, "body")
dyn_find ==
    /\ pc = "dyn_find"
    /\ BrowserCall("dyn_text")
    /\ UNCHANGED <<collected_words, driver, file_exists, file, text, calls,
                   words0, extracted, file0_exists, file0, load_error, log,
                   save_ok, uncaught>>

\* page_text = body_element.text; self.process_text(page_text)
dyn_text ==
    /\ pc = "dyn_text"
    /\ browser_used' = TRUE
    /\ \/ /\ Return(TRUE)
          /\ UNCHANGED <<collected_words, extracted>>
       \/ \E t \in PageTexts :
            /\ collected_words' = process_text(collected_words, t)
            /\ extracted' = extracted \cup (collected_words' \ collected_words)
            /\ Return(FALSE)
    /\ UNCHANGED <<driver, file_exists, file, text, calls, words0,
                   file0_exists, file0, load_error, log, save_ok, uncaught>>

\* save_words: open(OUTPUT_FILE, "w") truncates the file, or raises
save_open ==
    /\ pc = "save"
    /\ log' = Append(log, "save_words")
    /\ \/ /\ pc' = "close"
          /\ UNCHANGED <<file_exists, file>>
       \/ /\ file_exists' = TRUE
          /\ file' = <<>>
          /\ pc' = "save_write"
    /\ UNCHANGED <<collected_words, driver, src, page_ids, i, scroll_attempts,
                   text, calls, words0, extracted, file0_exists, file0,
                   load_error, failure_seen, kept, browser_used, save_ok,
                   uncaught>>

\* save_words: the write and the close of the file; on an error part of the
\* lines has reached the file
save_write ==
    /\ pc = "save_write"
    /\ LET sorted_words == sorted(collected_words)
       IN \/ /\ file' = sorted_words
             /\ save_ok' = TRUE
          \/ \E k \in 0..Len(sorted_words) :
                /\ k < Len(sorted_words) \/ sorted_words = <<>>
                /\ file' = SubSeq(sorted_words, 1, k)
                /\ UNCHANGED save_ok
    /\ pc' = "close"
    /\ UNCHANGED <<collected_words, driver, file_exists, src, page_ids, i,
                   scroll_attempts, text, calls, words0, extracted,
                   file0_exists, file0, load_error, log, failure_seen, kept,
                   browser_used, uncaught>>

\* close: self.driver.quit() when the driver is set; the call is not guarded
close ==
    /\ pc = "close"
    /\ log' = Append(log, "close")
    /\ IF driver_set(driver)
       THEN /\ browser_used' = TRUE
            /\ uncaught' \in BOOLEAN
       ELSE UNCHANGED <<browser_used, uncaught>>
    /\ pc' = "exit"
    /\ UNCHANGED <<collected_words, driver, file_exists, file, src, page_ids, i,
                   scroll_attempts, text, calls, words0, extracted,
                   file0_exists, file0, load_error, failure_seen, kept,
                   save_ok>>

Next ==
    \/ load_existing_words
    \/ load_no_file
    \/ setup_driver
    \/ mw_search
    \/ mw_chunk
    \/ dyn_start
    \/ dyn_get
    \/ dyn_height
    \/ dyn_scroll
    \/ dyn_newheight
    \/ dyn_find
    \/ dyn_text
    \/ save_open
    \/ save_write
    \/ close

Spec == Init /\ [][Next]_vars

\* the run is one sequential thread: it takes its next step as long as it
\* has one
LiveSpec == Spec /\ WF_vars(Next)

(* ------------------------------ claims --------------------------------- *)
HasOlChiki(w) == \E k \in 1..Len(w) : IsOlChiki(w[k])

\* (a) the maximal runs of Ol Chiki characters of length at least 2
MaximalRuns(s) ==
    {SubSeq(s, a, b) : <<a, b>> \in
        {p \in (1..Len(s)) \X (1..Len(s)) :
            /\ p[1] < p[2]
            /\ \A k \in p[1]..p[2] : IsOlChiki(s[k])
            /\ (p[1] = 1 \/ ~IsOlChiki(s[p[1] - 1]))
            /\ (p[2] = Len(s) \/ ~IsOlChiki(s[p[2] + 1]))}}

\* the whitespace-delimited tokens, as index pairs
TokenSpans(s) ==
    {p \in (1..Len(s)) \X (1..Len(s)) :
        /\ p[1] <= p[2]
        /\ \A k \in p[1]..p[2] : ~IsSpace(s[k])
        /\ (p[1] = 1 \/ IsSpace(s[p[1] - 1]))
        /\ (p[2] = Len(s) \/ IsSpace(s[p[2] + 1]))}

\* a token without its leading and trailing edge punctuation
Stripped(s, p) ==
    LET keep == {k \in p[1]..p[2] : ~IsEdgePunct(s[k])}
    IN IF keep = {} THEN <<>>
       ELSE SubSeq(s, CHOOSE a \in keep : \A k \in keep : a <= k,
                      CHOOSE b \in keep : \A k \in keep : b >= k)

\* (b) the stripped tokens that still contain an Ol Chiki character
StrippedTokens(s) ==
    {w \in {Stripped(s, p) : p \in TokenSpans(s)} : HasOlChiki(w)}

\* C1: from an empty wordlist process_text yields exactly the maximal Ol
\* Chiki runs of length >= 2 together with the edge-stripped whitespace
\* tokens that contain an Ol Chiki character; the text "ᱥᱟᱱᱛᱟᱲ is a language."
\* yields exactly {"ᱥᱟᱱᱛᱟᱲ"}.
C1_ExtractContract ==
    (pc = "process_text" /\ calls >= 1 /\ words0 = {}) =>
        /\ collected_words = MaximalRuns(text) \cup StrippedTokens(text)
        /\ (text = TextSantali => collected_words = {WordSantali})

C1_Witness ==
    /\ pc = "process_text" /\ calls >= 1 /\ words0 = {}
    /\ text = TextSantali
    /\ collected_words = {WordSantali}

\* C2: every token process_text adds contains at least one character in
\* U+1C50-U+1C7F.
C2_TokensHaveOlChiki == \A w \in extracted : HasOlChiki(w)

C2_Witness ==
    /\ pc = "process_text" /\ calls >= 1
    /\ Cardinality(extracted) >= 2

\* C3: process_text never adds a token shorter than 2 characters; "a ᱵ c"
\* on an empty wordlist leaves it empty.
C3_NoShortTokens ==
    /\ \A w \in extracted : Len(w) >= 2
    /\ (text = TextNoise /\ words0 = {}) => collected_words = {}

\* C4: a second process_text call on the same text leaves collected_words
\* as the first call left it.
C4_Idempotent ==
    [][(pc = "process_text" /\ calls >= 1) => collected_words' = collected_words]_vars

C4_Witness ==
    /\ pc = "process_text" /\ calls = 2
    /\ words0 # {}
    /\ collected_words # words0

\* the words a wordlist file stores: its lines without surrounding
\* whitespace, blank lines left out
StoredWords(f) == {w \in {strip(f[k]) : k \in 1..Len(f)} : w # <<>>}

\* one word per line, in ascending order, no word twice
AscendingLines(f) == \A j, k \in 1..Len(f) : j < k => StrLess(f[j], f[k])

FullLog == Sources \o <<"save_words", "close">>

\* C5: after a successful save_words the file holds exactly the stored and
\* the extracted words, each once, one per line in ascending order, and
\* saving again would write the same lines.
C5_FileIsSortedUnion ==
    save_ok =>
        /\ {file[k] : k \in 1..Len(file)} = StoredWords(file0) \cup extracted
        /\ AscendingLines(file)
        /\ sorted(collected_words) = file

\* C6: no step removes a word from collected_words.
C6_WordlistGrows == [][collected_words \subseteq collected_words']_vars

C6_Witness ==
    /\ pc = "exit"
    /\ load_error /\ failure_seen
    /\ words0 # {}
    /\ extracted \ words0 # {}
    /\ words0 \cup extracted \subseteq collected_words

\* C7: from the start of save_words on, the file holds either its complete
\* previous content or the complete new sorted wordlist.
C7_SaveIsAtomic ==
    pc \in {"save_write", "close", "exit"} =>
        \/ file_exists = file0_exists /\ file = file0
        \/ file_exists /\ file = sorted(collected_words)

\* C8: once a scrape call has caught a failure, the run still goes through
\* every source in order, then save_words, then close, and the words
\* collected when the failure happened are still collected.
C8_RunSurvivesFailures ==
    failure_seen ~> (pc = "exit" /\ log = FullLog /\ kept \subseteq collected_words)

C8_Witness ==
    /\ pc = "exit"
    /\ failure_seen
    /\ kept # {}
    /\ log = FullLog
    /\ save_ok

\* C9: when setup_driver fails, no call is ever made on the browser, the
\* scrape_dynamic_url calls return at once and leave collected_words alone,
\* and the run still calls every source, save_words and close.
C9_ApiOnlyRun ==
    /\ [][driver = "none" =>
            /\ browser_used' = browser_used
            /\ (pc = "dyn_start" =>
                    /\ collected_words' = collected_words
                    /\ pc' \in {"dyn_start", "save"})]_vars
    /\ [](driver = "none" => ~browser_used)
    /\ (driver = "none") ~> (pc = "exit" /\ log = FullLog)

C9_Witness ==
    /\ pc = "exit"
    /\ driver = "none"
    /\ ~browser_used
    /\ log = FullLog
    /\ extracted # {}
    /\ save_ok

\* C10: after a successful save_words every word the file stored at startup
\* is in the file.
C10_NoStoredWordLost ==
    (file0_exists /\ save_ok) => StoredWords(file0) \subseteq StoredWords(file)

====
